---- MODULE Spec2Model ----
(***************************************************************************)
(* Model of pre_commit_hooks/trailing_whitespace_fixer.py.                 *)
(*                                                                         *)
(* File contents are sequences of bytes (ASCII codes), as the files are    *)
(* opened in binary mode.  The output of `git diff` is a sequence of       *)
(* one-character strings, as subprocess.run(..., encoding='utf-8') hands   *)
(* it to the program as text.  main, _fix_file and the loop of _fix_file   *)
(* are a state machine whose position is pc.                               *)
(***************************************************************************)
EXTENDS Integers, Sequences, FiniteSets, TLC

VARIABLES
    filenames,      \* args.filenames
    md_arg,         \* args.markdown_linebreak_ext
    no_md_flag,     \* args.no_markdown_linebreak_ext
    chars,          \* chars of main: None or the bytes of --chars
    only_changed,   \* args.only_changed_lines
    fs,             \* the file system: path -> bytes
    git,            \* what `git diff --cached -U0 -- path` answers, per path
    pc,             \* position in main / _fix_file
    idx,            \* position of main's for loop in filenames (1-based)
    return_code,    \* main's return_code
    out,            \* standard output, a sequence of printed lines
    changed_lines,  \* _fix_file: None or the set of changed line numbers
    lines,          \* _fix_file: f.readlines()
    new_lines,      \* _fix_file: new_lines
    changed,        \* _fix_file: changed
    i,              \* _fix_file: the loop's line number
    ret,            \* the value _fix_file returned
    snap,           \* history: the file's bytes when _fix_file was entered
    passes          \* history: one record per finished call of _fix_file

vars == <<filenames, md_arg, no_md_flag, chars, only_changed, fs, git, pc, idx,
          return_code, out, changed_lines, lines, new_lines, changed, i, ret,
          snap, passes>>

(***************************************************************************)
(* Bounds of the model.                                                    *)
(***************************************************************************)
MaxContent == 4     \* bytes of a line before its end-of-line marker (SpecLine)
MaxLines == 3       \* lines of a file (Spec)
MaxStart == 3       \* largest new-side start of a generated hunk (Spec)
MaxCount == 2       \* largest new-side count of a generated hunk (Spec)
MaxHunks == 1       \* hunks of a generated diff (Spec)
MaxFiles == 2       \* length of the list of file names (SpecMain)

(***************************************************************************)
(* Bytes and Python's optional values.                                     *)
(***************************************************************************)
LF == 10
CR == 13
SP == 32

\* The bytes bytes.isspace() accepts and bytes.rstrip(None) removes.
Whitespace == {9, 10, 11, 12, 13, 32}

Range(s) == {s[k] : k \in 1..Len(s)}

\* None / a value, for `chars: bytes | None` and for changed_lines.
None == [some |-> FALSE, val |-> <<>>]
Some(v) == [some |-> TRUE, val |-> v]

RECURSIVE Flatten(_)
\* f.writelines(new_lines): the lines written one after the other.
Flatten(ls) == IF ls = <<>> THEN <<>> ELSE Head(ls) \o Flatten(Tail(ls))

(***************************************************************************)
(* _process_line                                                           *)
(***************************************************************************)
endswith(s, suffix) ==
    /\ Len(s) >= Len(suffix)
    /\ SubSeq(s, Len(s) - Len(suffix) + 1, Len(s)) = suffix

\* s[:-n]
DropLast(s, n) == SubSeq(s, 1, Len(s) - n)

\* bytes.isspace(): every byte is ASCII whitespace and there is at least one.
isspace(s) == s # <<>> /\ \A k \in 1..Len(s) : s[k] \in Whitespace

RECURSIVE rstripSet(_, _)
rstripSet(s, set) ==
    IF s # <<>> /\ s[Len(s)] \in set
    THEN rstripSet(DropLast(s, 1), set)
    ELSE s

\* A buggy rstrip that removes one trailing byte at most.
rstripOnce(s, c) ==
    IF s # <<>> /\ s[Len(s)] \in (IF c.some THEN Range(c.val) ELSE Whitespace)
    THEN DropLast(s, 1)
    ELSE s

\* bytes.rstrip(chars): chars None strips ASCII whitespace, otherwise the
\* bytes of chars, taken as a set.
rstrip(s, c) == rstripSet(s, IF c.some THEN Range(c.val) ELSE Whitespace)

\* A buggy _process_line without the `not line.isspace()` guard.
process_line_no_isspace(line, is_markdown, c) ==
    LET eol == IF endswith(line, <<CR, LF>>) THEN <<CR, LF>>
               ELSE IF endswith(line, <<LF>>) THEN <<LF>>
               ELSE <<>>
        body == DropLast(line, Len(eol))
    IN  IF is_markdown /\ endswith(body, <<SP, SP>>)
        THEN rstrip(DropLast(body, 2), c) \o <<SP, SP>> \o eol
        ELSE rstrip(body, c) \o eol

\* A buggy _process_line that ignores is_markdown.
process_line_plain(line, is_markdown, c) ==
    LET eol == IF endswith(line, <<CR, LF>>) THEN <<CR, LF>>
               ELSE IF endswith(line, <<LF>>) THEN <<LF>>
               ELSE <<>>
        body == DropLast(line, Len(eol))
    IN  rstrip(body, c) \o eol

_process_line(line, is_markdown, c) ==
    LET eol == IF endswith(line, <<CR, LF>>) THEN <<CR, LF>>
               ELSE IF endswith(line, <<LF>>) THEN <<LF>>
               ELSE <<>>
        body == DropLast(line, Len(eol))
    IN  IF is_markdown /\ ~isspace(body) /\ endswith(body, <<SP, SP>>)
        THEN rstrip(DropLast(body, 2), c) \o <<SP, SP>> \o eol
        ELSE rstrip(body, c) \o eol

(***************************************************************************)
(* get_changed_lines                                                       *)
(***************************************************************************)
Digits == <<"0", "1", "2", "3", "4", "5", "6", "7", "8", "9">>

IsDigit(ch) == ch \in Range(Digits)

DigitVal(ch) == CHOOSE d \in 0..9 : Digits[d + 1] = ch

RECURSIVE int(_)
\* int(str) of a non-empty string of decimal digits.
int(s) ==
    IF Len(s) = 1
    THEN DigitVal(s[1])
    ELSE 10 * int(DropLast(s, 1)) + DigitVal(s[Len(s)])

RECURSIVE DigitsEnd(_, _)
\* \d+ from position p, greedy: the position after the run of digits.
DigitsEnd(s, p) ==
    IF p <= Len(s) /\ IsDigit(s[p]) THEN DigitsEnd(s, p + 1) ELSE p

\* The literal lit stands in s at position p.
LitAt(s, p, lit) ==
    /\ p + Len(lit) - 1 <= Len(s)
    /\ SubSeq(s, p, p + Len(lit) - 1) = lit

\* hunk_re.match(line) for ^@@ -\d+(?:,\d+)? \+(\d+)(?:,(\d+))? @@ :
\* ok, group(1) and group(2) (None when the group took no part).
hunk_re_match(line) ==
    LET p1 == Len(<<"@", "@", " ", "-">>) + 1
        e1 == DigitsEnd(line, p1)
        hasOld == LitAt(line, e1, <<",">>) /\ DigitsEnd(line, e1 + 1) > e1 + 1
        e2 == IF hasOld THEN DigitsEnd(line, e1 + 1) ELSE e1
        p3 == e2 + Len(<<" ", "+">>)
        e3 == DigitsEnd(line, p3)
        hasNew == LitAt(line, e3, <<",">>) /\ DigitsEnd(line, e3 + 1) > e3 + 1
        e4 == IF hasNew THEN DigitsEnd(line, e3 + 1) ELSE e3
    IN  IF /\ LitAt(line, 1, <<"@", "@", " ", "-">>)
           /\ e1 > p1
           /\ LitAt(line, e2, <<" ", "+">>)
           /\ e3 > p3
           /\ LitAt(line, e4, <<" ", "@", "@">>)
        THEN [ok |-> TRUE,
              group1 |-> SubSeq(line, p3, e3 - 1),
              group2 |-> IF hasNew THEN Some(SubSeq(line, e3 + 1, e4 - 1)) ELSE None]
        ELSE [ok |-> FALSE, group1 |-> <<>>, group2 |-> None]

RECURSIVE universal_newlines(_)
\* The text layer of subprocess.run(..., encoding='utf-8'): the pipe is read
\* through a TextIOWrapper with newline=None, which turns "\r\n" and "\r"
\* into "\n".
universal_newlines(t) ==
    IF t = <<>> THEN <<>>
    ELSE IF LitAt(t, 1, <<"\r", "\n">>)
         THEN <<"\n">> \o universal_newlines(SubSeq(t, 3, Len(t)))
    ELSE IF t[1] = "\r"
         THEN <<"\n">> \o universal_newlines(Tail(t))
    ELSE <<t[1]>> \o universal_newlines(Tail(t))

\* The position of the first line boundary of t, or Len(t) + 1.
FirstBreak(t) ==
    IF \E k \in 1..Len(t) : t[k] \in {"\n", "\r"}
    THEN CHOOSE k \in 1..Len(t) :
            /\ t[k] \in {"\n", "\r"}
            /\ \A j \in 1..(k - 1) : t[j] \notin {"\n", "\r"}
    ELSE Len(t) + 1

RECURSIVE splitlines(_)
\* str.splitlines(): the lines without their boundaries ("\n", "\r", "\r\n"
\* of the boundaries Python knows); no empty last line.
splitlines(t) ==
    IF t = <<>> THEN <<>>
    ELSE LET k == FirstBreak(t)
             n == IF LitAt(t, k, <<"\r", "\n">>) THEN k + 2 ELSE k + 1
         IN  <<SubSeq(t, 1, k - 1)>> \o splitlines(SubSeq(t, n, Len(t)))

\* range(start, start + count) of one line of the diff, empty when the line
\* does not match.
hunk_lines(line) ==
    LET match == hunk_re_match(line)
        start == int(match.group1)
        count == IF match.group2.some THEN int(match.group2.val) ELSE 1
    IN  IF match.ok THEN start..(start + count - 1) ELSE {}

\* get_changed_lines given what git answered: g.rc is its exit status
\* (check=True raises CalledProcessError when it is not 0), g.stdout the
\* bytes it wrote.
changed_lines_of(g) ==
    IF g.rc # 0
    THEN {}
    ELSE LET ls == splitlines(universal_newlines(g.stdout))
         IN  UNION {hunk_lines(ls[k]) : k \in 1..Len(ls)}

(***************************************************************************)
(* git diff --cached -U0 -- filename: the text git writes for a list of    *)
(* hunks.  A hunk is its old and new start and count (a count of -1 is a   *)
(* count git leaves out) and the lines of its body.                        *)
(***************************************************************************)
RECURSIVE str(_)
\* The decimal digits of n >= 0.
str(n) ==
    IF n < 10
    THEN <<Digits[n + 1]>>
    ELSE str(n \div 10) \o <<Digits[(n % 10) + 1]>>

HunkRange(start, count) ==
    str(start) \o (IF count >= 0 THEN <<",">> \o str(count) ELSE <<>>)

HunkHeader(h) ==
    <<"@", "@", " ", "-">> \o HunkRange(h.os, h.oc) \o <<" ", "+">>
        \o HunkRange(h.ns, h.nc) \o <<" ", "@", "@">>

RECURSIVE TextLines(_)
\* Lines of text, each ended by "\n".
TextLines(ls) ==
    IF ls = <<>> THEN <<>> ELSE Head(ls) \o <<"\n">> \o TextLines(Tail(ls))

RECURSIVE RenderHunks(_)
RenderHunks(d) ==
    IF d = <<>> THEN <<>>
    ELSE HunkHeader(Head(d)) \o <<"\n">> \o TextLines(Head(d).body)
            \o RenderHunks(Tail(d))

\* The file header git writes before the first hunk.
DiffPreamble ==
    << <<"-", "-", "-", " ", "a", "/", "f">>, <<"+", "+", "+", " ", "b", "/", "f">> >>

\* subprocess.run(['git', 'diff', '--cached', '-U0', '--', filename], ...):
\* the exit status and the text written.
git_diff(g) ==
    [rc |-> g.rc,
     stdout |-> IF g.diff = <<>> THEN <<>>
                ELSE TextLines(DiffPreamble) \o RenderHunks(g.diff)]

\* get_changed_lines(filename), g being what git answers for filename.
get_changed_lines(g) == changed_lines_of(git_diff(g))

(***************************************************************************)
(* _fix_file and main                                                      *)
(***************************************************************************)
RECURSIVE readlines(_)
\* f.readlines() of a file opened 'rb': the bytes cut after every LF.
readlines(b) ==
    IF b = <<>> THEN <<>>
    ELSE LET k == IF \E j \in 1..Len(b) : b[j] = LF
                  THEN CHOOSE j \in 1..Len(b) :
                          b[j] = LF /\ \A m \in 1..(j - 1) : b[m] # LF
                  ELSE Len(b)
         IN  <<SubSeq(b, 1, k)>> \o readlines(SubSeq(b, k + 1, Len(b)))

Paths == {"a.md", "b.txt"}

\* os.path.splitext(filename.lower())[1] on the paths of the model.
splitext_ext(filename) ==
    CASE filename = "a.md" -> ".md"
      [] filename = "b.txt" -> ".txt"
      [] OTHER -> ""

\* all_md or ext in md_exts; the values of --markdown-linebreak-ext of the
\* model are lower case, without dots and commas.
is_md(filename) ==
    \/ "*" \in Range(md_arg)
    \/ splitext_ext(filename) \in {"." \o x : x \in Range(md_arg)}

\* The current file of main's loop.
filename == filenames[idx]

\* A buggy line selection that numbers the lines from 0.
SelectedFromZero(n, cl) == ~cl.some \/ (n - 1) \in cl.val

\* changed_lines is None or i in changed_lines
Selected(n, cl) == ~cl.some \/ n \in cl.val

FixLocals == <<changed_lines, lines, new_lines, changed, i>>
Args == <<filenames, md_arg, no_md_flag, chars, only_changed, git>>

\* main up to its loop: the notice of --no-markdown-linebreak-ext.
MainStart ==
    /\ pc = "start"
    /\ out' = IF no_md_flag
              THEN Append(out, <<"--no-markdown-linebreak-ext now does nothing!">>)
              ELSE out
    /\ return_code' = 0
    /\ idx' = 1
    /\ pc' = "main"
    /\ UNCHANGED <<Args, fs, FixLocals, ret, snap, passes>>

\* for filename in args.filenames: call _fix_file, or return return_code.
MainLoop ==
    /\ pc = "main"
    /\ IF idx <= Len(filenames)
       THEN pc' = "fix" /\ snap' = fs[filename]
       ELSE pc' = "done" /\ snap' = snap
    /\ UNCHANGED <<Args, fs, idx, return_code, out, FixLocals, ret, passes>>

\* A buggy entry of _fix_file that takes an empty set for "all lines".
FixEntryEmptyIsAll ==
    /\ pc = "fix"
    /\ changed_lines' = IF only_changed /\ get_changed_lines(git[filename]) # {}
                        THEN Some(get_changed_lines(git[filename]))
                        ELSE None
    /\ pc' = "read"
    /\ UNCHANGED <<Args, fs, idx, return_code, out, lines, new_lines, changed, i,
                   ret, snap, passes>>

\* _fix_file, lines 40-45.
FixEntry ==
    /\ pc = "fix"
    /\ IF only_changed
       THEN LET cl == get_changed_lines(git[filename])
            IN  /\ changed_lines' = Some(cl)
                /\ IF cl = {}
                   THEN ret' = FALSE /\ pc' = "ret"
                   ELSE ret' = ret /\ pc' = "read"
       ELSE /\ changed_lines' = None
            /\ ret' = ret
            /\ pc' = "read"
    /\ UNCHANGED <<Args, fs, idx, return_code, out, lines, new_lines, changed, i,
                   snap, passes>>

\* _fix_file, lines 47-51.
ReadFile ==
    /\ pc = "read"
    /\ lines' = readlines(fs[filename])
    /\ new_lines' = <<>>
    /\ changed' = FALSE
    /\ i' = 1
    /\ pc' = "loop"
    /\ UNCHANGED <<Args, fs, idx, return_code, out, changed_lines, ret, snap, passes>>

\* One turn of the loop of _fix_file, lines 52-59.
LoopStep ==
    /\ pc = "loop"
    /\ i <= Len(lines)
    /\ IF Selected(i, changed_lines)
       THEN LET new_line == _process_line(lines[i], is_md(filename), chars)
            IN  /\ changed' = (changed \/ new_line # lines[i])
                /\ new_lines' = Append(new_lines, new_line)
       ELSE /\ changed' = changed
            /\ new_lines' = Append(new_lines, lines[i])
    /\ i' = i + 1
    /\ UNCHANGED <<Args, fs, pc, idx, return_code, out, changed_lines, lines, ret,
                   snap, passes>>

\* A buggy end of the loop that rewrites the file whether or not it changed.
LoopExitAlwaysWrite ==
    /\ pc = "loop"
    /\ i > Len(lines)
    /\ pc' = "open"
    /\ UNCHANGED <<Args, fs, idx, return_code, out, FixLocals, ret, snap, passes>>

\* The end of the loop, lines 61 and 65.
LoopExit ==
    /\ pc = "loop"
    /\ i > Len(lines)
    /\ IF changed
       THEN pc' = "open" /\ ret' = ret
       ELSE pc' = "ret" /\ ret' = FALSE
    /\ UNCHANGED <<Args, fs, idx, return_code, out, FixLocals, snap, passes>>

\* open(filename, 'wb'), line 62: the file is truncated.
OpenWrite ==
    /\ pc = "open"
    /\ fs' = [fs EXCEPT ![filename] = <<>>]
    /\ pc' = "write"
    /\ UNCHANGED <<Args, idx, return_code, out, FixLocals, ret, snap, passes>>

\* f.writelines(new_lines), the file is closed, return True: lines 63-64.
WriteLines ==
    /\ pc = "write"
    /\ fs' = [fs EXCEPT ![filename] = Flatten(new_lines)]
    /\ ret' = TRUE
    /\ pc' = "ret"
    /\ UNCHANGED <<Args, idx, return_code, out, FixLocals, snap, passes>>

\* A buggy main that reports a fixed file but leaves return_code alone.
MainAfterFixNoCode ==
    /\ pc = "ret"
    /\ out' = IF ret THEN Append(out, <<"Fixing", filename>>) ELSE out
    /\ passes' = Append(passes, [path |-> filename, before |-> snap,
                                 after |-> fs[filename], ret |-> ret])
    /\ idx' = idx + 1
    /\ pc' = "main"
    /\ UNCHANGED <<Args, fs, return_code, FixLocals, ret, snap>>

\* main, lines 103-105: what main does with the value _fix_file returned.
MainAfterFix ==
    /\ pc = "ret"
    /\ IF ret
       THEN /\ out' = Append(out, <<"Fixing", filename>>)
            /\ return_code' = 1
       ELSE /\ out' = out
            /\ return_code' = return_code
    /\ passes' = Append(passes, [path |-> filename, before |-> snap,
                                 after |-> fs[filename], ret |-> ret])
    /\ idx' = idx + 1
    /\ pc' = "main"
    /\ UNCHANGED <<Args, fs, FixLocals, ret, snap>>

Next ==
    \/ MainStart
    \/ MainLoop
    \/ FixEntry
    \/ ReadFile
    \/ LoopStep
    \/ LoopExit
    \/ OpenWrite
    \/ WriteLines
    \/ MainAfterFix

(***************************************************************************)
(* Initial states.                                                         *)
(***************************************************************************)
\* The state of main before it runs, whatever its arguments and files.
InitControl ==
    /\ pc = "start"
    /\ idx = 0
    /\ return_code = 0
    /\ out = <<>>
    /\ changed_lines = None
    /\ lines = <<>>
    /\ new_lines = <<>>
    /\ changed = FALSE
    /\ i = 0
    /\ ret = FALSE
    /\ snap = <<>>
    /\ passes = <<>>

\* git fails: the file is not tracked.
GitFails == [rc |-> 128, diff |-> <<>>]

GitDiff(d) == [rc |-> 0, diff |-> d]

Hunk(os, oc, ns, nc, body) ==
    [os |-> os, oc |-> oc, ns |-> ns, nc |-> nc, body |-> body]

\* The last new-side line of a hunk.
NewEnd(h) == h.ns + (IF h.nc >= 0 THEN h.nc ELSE 1) - 1

\* Hunks with every new-side start and count of the bounds, the hunk of the
\* example "@@ -10,3 +12,5 @@", and a hunk that adds a line holding a
\* carriage return followed by the text of a hunk header.
HunkPool ==
    {Hunk(ns, nc, ns, nc, << <<"+", "a">> >>) :
        <<ns, nc>> \in (1..MaxStart) \X (-1..MaxCount)}
    \cup {Hunk(10, 3, 12, 5, << <<"+", "a">> >>)}
    \cup {Hunk(1, -1, 1, -1,
               << <<"-", "a">>,
                  <<"+", "a", "\r", "@", "@", " ", "-", "1", " ", "+", "2", " ", "@", "@">> >>)}

RECURSIVE Diffs(_)
\* The lists of at most n hunks, in the order of their new-side lines.
Diffs(n) ==
    IF n = 0 THEN {<<>>}
    ELSE Diffs(n - 1) \cup
         {Append(p[1], p[2]) :
            p \in {q \in Diffs(n - 1) \X HunkPool :
                     /\ Len(q[1]) = n - 1
                     /\ q[1] # <<>> => NewEnd(q[1][Len(q[1])]) < q[2].ns}}

\* The bytes of a line before its end-of-line marker: tab, space, CR, "a", "x".
LineBytes == {9, SP, CR, 97, 120}

Contents(n) == UNION {[1..k -> LineBytes] : k \in 0..n}

\* --chars: left out, or one of these strings.
CharsOptions == {None, Some(<<>>), Some(<<SP>>), Some(<<120>>), Some(<<SP, 120>>)}

\* SpecLine: one file of one line, every content within the bound, with and
\* without a final LF, under every policy, no restriction; the file is named
\* twice, so that the second pass reads what the first wrote.
InitLine ==
    /\ InitControl
    /\ filenames = <<"a.md", "a.md">>
    /\ md_arg \in {<<>>, <<"md">>}
    /\ no_md_flag = FALSE
    /\ chars \in CharsOptions
    /\ only_changed = FALSE
    /\ git = [p \in Paths |-> GitFails]
    /\ \E c \in Contents(MaxContent), e \in {<<>>, <<LF>>} :
          fs = [p \in Paths |-> IF p = "a.md" THEN c \o e ELSE <<>>]

\* Lines that end in LF, and lines that can only be the last of a file.
EndedLines == {<<97, SP, SP, LF>>, <<97, LF>>, <<97, SP, CR, LF>>}
LastLines == EndedLines \cup {<<97, SP>>}

RECURSIVE FilesOf(_)
\* The files of exactly n lines.
FilesOf(n) ==
    IF n = 0 THEN {<<>>}
    ELSE IF n = 1 THEN LastLines
    ELSE {l \o f : <<l, f>> \in EndedLines \X FilesOf(n - 1)}

Files(n) == UNION {FilesOf(k) : k \in 0..n}

\* Spec: one file of up to MaxLines lines, processed once, with and without
\* --only-changed-lines; git fails or answers a diff of up to MaxHunks hunks.
Init ==
    /\ InitControl
    /\ filenames = <<"a.md">>
    /\ md_arg \in {<<>>, <<"md">>}
    /\ no_md_flag = FALSE
    /\ chars = None
    /\ only_changed \in BOOLEAN
    /\ \E g \in {GitFails} \cup {GitDiff(d) : d \in Diffs(MaxHunks)} :
          /\ ~only_changed => g = GitFails
          /\ git = [p \in Paths |-> IF p = "a.md" THEN g ELSE GitFails]
    /\ \E f \in Files(MaxLines) :
          fs = [p \in Paths |-> IF p = "a.md" THEN f ELSE <<>>]

RECURSIVE NameLists(_)
\* The lists of at most n paths.
NameLists(n) ==
    IF n = 0 THEN {<<>>}
    ELSE NameLists(n - 1) \cup
         {Append(l, p) : <<l, p>> \in {q \in NameLists(n - 1) \X Paths : Len(q[1]) = n - 1}}

\* SpecMain: a list of up to MaxFiles paths, a path possibly named twice;
\* each file is clean, has trailing spaces, or is "x\rx\n".
InitMain ==
    /\ InitControl
    /\ filenames \in NameLists(MaxFiles)
    /\ md_arg \in {<<>>, <<"md">>, <<"*">>}
    /\ no_md_flag \in BOOLEAN
    /\ chars \in {None, Some(<<120>>)}
    /\ only_changed \in BOOLEAN
    /\ git \in [Paths -> {GitFails, GitDiff(<<Hunk(1, -1, 1, -1, << <<"+", "a">> >>)>>)}]
    /\ ~only_changed => git = [p \in Paths |-> GitFails]
    /\ fs \in [Paths -> {<<97, SP, SP, LF>>, <<97, LF>>, <<120, CR, 120, LF>>}]

Spec == Init /\ [][Next]_vars
SpecLine == InitLine /\ [][Next]_vars
SpecMain == InitMain /\ [][Next]_vars

(***************************************************************************)
(* The vocabulary of the properties, defined without the operators of the  *)
(* model above.                                                            *)
(***************************************************************************)
\* The end-of-line marker of a line: CR LF, else LF, else none.
EolOf(l) ==
    IF Len(l) >= 2 /\ l[Len(l) - 1] = 13 /\ l[Len(l)] = 10 THEN <<13, 10>>
    ELSE IF Len(l) >= 1 /\ l[Len(l)] = 10 THEN <<10>>
    ELSE <<>>

\* The line without its end-of-line marker.
ContentOf(l) == [k \in 1..(Len(l) - Len(EolOf(l))) |-> l[k]]

\* Space, tab, LF, VT, FF, CR.
DefaultWhitespace == {32, 9, 10, 11, 12, 13}

\* The strip set of a policy.
StripSet(c) == IF c.some THEN {c.val[k] : k \in 1..Len(c.val)} ELSE DefaultWhitespace

AllWhitespace(s) == \A k \in 1..Len(s) : s[k] \in DefaultWhitespace

EndsWithTwoSpaces(s) == Len(s) >= 2 /\ s[Len(s) - 1] = 32 /\ s[Len(s)] = 32

\* p is s without its maximal trailing run of bytes of set.
IsStripped(p, s, set) ==
    /\ Len(p) <= Len(s)
    /\ \A k \in 1..Len(p) : p[k] = s[k]
    /\ \A k \in (Len(p) + 1)..Len(s) : s[k] \in set
    /\ p = <<>> \/ p[Len(p)] \notin set

\* The number of spaces s ends with.
TrailingSpaces(s) ==
    CHOOSE n \in 0..Len(s) :
        /\ \A k \in (Len(s) - n + 1)..Len(s) : s[k] = 32
        /\ n = Len(s) \/ s[Len(s) - n] # 32

\* _fix_file is past its read of the file: lines and new_lines are those of
\* the current file.
InPass == pc \in {"loop", "open", "write", "ret"}

\* The lines the loop has processed so far.
Processed == {j \in 1..Len(new_lines) : ~changed_lines.some \/ j \in changed_lines.val}

\* The line takes the hard-break branch.
HardBreak(l) ==
    /\ is_md(filename)
    /\ ~AllWhitespace(ContentOf(l))
    /\ EndsWithTwoSpaces(ContentOf(l))

\* _fix_file is past its entry (lines 40-45) for the one file of Spec.
AfterEntry == pc \in {"read", "loop", "open", "write", "ret", "done"} \/ (pc = "main" /\ idx > 1)

(***************************************************************************)
(* C1  Idempotence: with no restriction set, a second run of the rewriter  *)
(* on the file the first run left reports no change and leaves the file    *)
(* as it is.                                                               *)
(***************************************************************************)
C1_Idempotent ==
    (pc = "done" /\ Len(passes) = 2) =>
        /\ ~passes[2].ret
        /\ passes[2].after = passes[1].after

(***************************************************************************)
(* C2  EOL preservation: the end-of-line marker of every processed line's  *)
(* output equals that of its input.                                        *)
(***************************************************************************)
C2_EolPreserved ==
    InPass => \A j \in Processed : EolOf(new_lines[j]) = EolOf(lines[j])

(***************************************************************************)
(* C3  Restriction-set frame: with a restriction set, line j (1-based from *)
(* the top of the file, the unterminated last line included) is processed  *)
(* iff j is in the set, every other line is copied byte for byte, the      *)
(* output has the lines of the input in their order, and numbers beyond    *)
(* the file's line count have no effect.                                   *)
(***************************************************************************)
C3_RestrictionFrame ==
    (InPass /\ changed_lines.some) =>
        IF changed_lines.val = {}
        THEN \* no line is selected: the file is left as it is
             pc = "ret" /\ ~ret /\ fs[filename] = snap
        ELSE \* lines are the file's lines: cut after every LF, numbered from 1
             /\ Flatten(lines) = snap
             /\ \A j \in 1..Len(lines) :
                   /\ lines[j] # <<>>
                   /\ \A k \in 1..(Len(lines[j]) - 1) : lines[j][k] # 10
                   /\ j < Len(lines) => lines[j][Len(lines[j])] = 10
             /\ Len(new_lines) = (IF pc = "loop" THEN i - 1 ELSE Len(lines))
             /\ \A j \in 1..Len(new_lines) :
                   IF j \in changed_lines.val
                   THEN new_lines[j] = _process_line(lines[j], is_md(filename), chars)
                   ELSE new_lines[j] = lines[j]
             /\ pc = "ret" =>
                   /\ ret = (\E j \in 1..Len(lines) : new_lines[j] # lines[j])
                   /\ fs[filename] = Flatten(new_lines)

\* The example of the spec: three lines with trailing spaces, the set {2}.
C3_Witness ==
    /\ pc = "ret"
    /\ changed_lines.some
    /\ changed_lines.val = {2}
    /\ lines = << <<97, 32, 32, 10>>, <<97, 32, 32, 10>>, <<97, 32, 32, 10>> >>
    /\ new_lines = << <<97, 32, 32, 10>>, <<97, 10>>, <<97, 32, 32, 10>> >>
    /\ ret

(***************************************************************************)
(* C4  Whitespace-only lines.  As claimed: a processed line whose content  *)
(* is all whitespace comes out as its end-of-line marker alone, whatever   *)
(* the policy.                                                             *)
(***************************************************************************)
C4_AsClaimed ==
    InPass => \A j \in Processed :
        AllWhitespace(ContentOf(lines[j])) => new_lines[j] = EolOf(lines[j])

(***************************************************************************)
(* C4, amended: a processed line whose content is all whitespace, every    *)
(* byte of it in the strip set (always so when stripChars is null), comes  *)
(* out as its end-of-line marker alone, with isMarkdown or without.        *)
(***************************************************************************)
C4_WhitespaceOnly ==
    InPass => \A j \in Processed :
        (/\ AllWhitespace(ContentOf(lines[j]))
         /\ \A k \in 1..Len(ContentOf(lines[j])) : ContentOf(lines[j])[k] \in StripSet(chars))
        => new_lines[j] = EolOf(lines[j])

\* A Markdown file's line of two spaces is stripped to its LF.
C4_Witness ==
    /\ pc = "ret"
    /\ is_md(filename)
    /\ ~chars.some
    /\ lines = << <<32, 32, 10>> >>
    /\ new_lines = << <<10>> >>

(***************************************************************************)
(* C5  Markdown hard break.  As claimed: the consequence drawn for every   *)
(* policy, that a Markdown line whose content is not all whitespace and    *)
(* ends with three or more spaces comes out with exactly two.              *)
(***************************************************************************)
C5_AsClaimed ==
    (InPass /\ is_md(filename)) => \A j \in Processed :
        (/\ ~AllWhitespace(ContentOf(lines[j]))
         /\ TrailingSpaces(ContentOf(lines[j])) >= 3)
        => TrailingSpaces(ContentOf(new_lines[j])) = 2

(***************************************************************************)
(* C5, amended: with isMarkdown, a processed line whose content is not all *)
(* whitespace and ends with two spaces comes out as the content without    *)
(* its last two bytes, right-stripped of the strip set, then the two       *)
(* spaces and the original EOL; when the space is in the strip set, a line *)
(* with three or more trailing spaces comes out with exactly two.  A       *)
(* Markdown line whose content does not end with two spaces is             *)
(* right-stripped like an ordinary line.                                   *)
(***************************************************************************)
C5_HardBreak ==
    (InPass /\ is_md(filename)) => \A j \in Processed :
        LET b == ContentOf(lines[j])
            e == EolOf(lines[j])
            o == new_lines[j]
            n == Len(o) - Len(e)
        IN  IF ~AllWhitespace(b) /\ EndsWithTwoSpaces(b)
            THEN /\ n >= 2
                 /\ o = [k \in 1..(n - 2) |-> o[k]] \o <<32, 32>> \o e
                 /\ IsStripped([k \in 1..(n - 2) |-> o[k]],
                               [k \in 1..(Len(b) - 2) |-> b[k]], StripSet(chars))
                 /\ (32 \in StripSet(chars) /\ TrailingSpaces(b) >= 3)
                        => TrailingSpaces([k \in 1..n |-> o[k]]) = 2
            ELSE EndsWithTwoSpaces(b) \/
                 (/\ n >= 0
                  /\ o = [k \in 1..n |-> o[k]] \o e
                  /\ IsStripped([k \in 1..n |-> o[k]], b, StripSet(chars)))

\* "a   \n" in a Markdown file comes out as "a  \n".
C5_Witness ==
    /\ pc = "ret"
    /\ is_md(filename)
    /\ ~chars.some
    /\ lines = << <<97, 32, 32, 32, 10>> >>
    /\ new_lines = << <<97, 32, 32, 10>> >>

(***************************************************************************)
(* C6  Strip semantics outside the hard-break branch: the output is the    *)
(* content without its maximal trailing run of strip-set bytes, then the   *)
(* original EOL; the strip set is the default whitespace when stripChars   *)
(* is null and the given bytes otherwise, so trailing spaces stay when the *)
(* space is not in the set.                                                *)
(***************************************************************************)
C6_StripSemantics ==
    InPass => \A j \in Processed :
        LET b == ContentOf(lines[j])
            e == EolOf(lines[j])
            o == new_lines[j]
            n == Len(o) - Len(e)
        IN  ~HardBreak(lines[j]) =>
                /\ n >= 0
                /\ o = [k \in 1..n |-> o[k]] \o e
                /\ IsStripped([k \in 1..n |-> o[k]], b, StripSet(chars))
                /\ (chars.some /\ 32 \notin StripSet(chars) /\ b # <<>> /\ b[Len(b)] = 32)
                        => o = lines[j]

\* --chars x: "axx\n" comes out as "a\n".
C6_Witness ==
    /\ pc = "ret"
    /\ chars = Some(<<120>>)
    /\ lines = << <<97, 120, 120, 10>> >>
    /\ new_lines = << <<97, 10>> >>

(***************************************************************************)
(* C7  Exit code and reporting: main returns 1 iff at least one pass over  *)
(* a listed file modified it, and 0 otherwise; "Fixing <path>" is printed  *)
(* once for each pass that modified its file and for no other; every       *)
(* listed file is processed, also after a modification.                    *)
(***************************************************************************)
C7_ExitCodeAndReport ==
    /\ pc = "ret" =>
          /\ ret = (fs[filename] # snap)
          /\ (ret /\ InPass) => \E j \in 1..Len(lines) : new_lines[j] # lines[j]
    /\ pc \in {"main", "done"} =>
          /\ Len(passes) = idx - 1
          /\ \A k \in 1..Len(passes) : passes[k].path = filenames[k]
          /\ return_code = (IF \E k \in 1..Len(passes) : passes[k].before # passes[k].after
                            THEN 1 ELSE 0)
          /\ SelectSeq(out, LAMBDA l : l[1] = "Fixing")
               = [k \in 1..Len(SelectSeq(passes, LAMBDA r : r.before # r.after)) |->
                    <<"Fixing", SelectSeq(passes, LAMBDA r : r.before # r.after)[k].path>>]
    /\ pc = "done" => Len(passes) = Len(filenames)

\* The first of two files is fixed, the second is processed and left alone.
C7_Witness ==
    /\ pc = "done"
    /\ filenames = <<"a.md", "b.txt">>
    /\ passes[1].before # passes[1].after
    /\ passes[2].before = passes[2].after
    /\ return_code = 1
    /\ out = << <<"Fixing", "a.md">> >>

(***************************************************************************)
(* C8  Empty changed-line set under --only-changed-lines: when git fails   *)
(* or its diff holds no hunk, the extractor yields the empty set; whenever *)
(* it yields the empty set the file is not read, its bytes stay, it is not *)
(* reported, and the exit code stays 0.                                    *)
(***************************************************************************)
C8_EmptySetUntouched ==
    (only_changed /\ AfterEntry) =>
        /\ (git["a.md"].rc # 0 \/ git["a.md"].diff = <<>>) =>
              (changed_lines.some /\ changed_lines.val = {})
        /\ changed_lines.some
        /\ changed_lines.val = {} =>
              /\ pc \in {"ret", "main", "done"}
              /\ ~ret
              /\ lines = <<>> /\ new_lines = <<>>
              /\ fs["a.md"] = snap
              /\ out = <<>>
              /\ return_code = 0

\* git fails for a file with trailing spaces; main is done, the file is as it was.
C8_Witness ==
    /\ pc = "done"
    /\ only_changed
    /\ git["a.md"].rc # 0
    /\ md_arg = <<>>
    /\ fs["a.md"] = <<97, 32, 32, 10>>
    /\ return_code = 0
    /\ out = <<>>

(***************************************************************************)
(* C9  Hunk-header parsing: the set the extractor returns is the union,    *)
(* over the hunk headers of git's diff, of newStart..newStart+newCount-1,  *)
(* a count left out being 1; the other lines of the diff add nothing.      *)
(***************************************************************************)
C9_HunkRanges ==
    (only_changed /\ AfterEntry) =>
        /\ changed_lines.some
        /\ changed_lines.val =
              (IF git["a.md"].rc # 0 THEN {}
               ELSE UNION {LET h == git["a.md"].diff[k]
                           IN  h.ns..(h.ns + (IF h.nc = -1 THEN 1 ELSE h.nc) - 1) :
                           k \in 1..Len(git["a.md"].diff)})

(***************************************************************************)
(* C10  Write ordering: the file is opened for writing only when every     *)
(* line has been processed, the rewritten lines are complete in memory and *)
(* at least one differs from its input; the file changes only by that open *)
(* and by one write of all the lines to the same path.                     *)
(***************************************************************************)
C10_WriteOrdering ==
    [][/\ (pc' = "write" /\ pc # "write") =>
              /\ pc = "open"
              /\ changed
              /\ i = Len(lines) + 1
              /\ Len(new_lines) = Len(lines)
              /\ Flatten(lines) = snap
              /\ \E j \in 1..Len(lines) : new_lines[j] # lines[j]
              /\ new_lines' = new_lines
       /\ fs' # fs =>
              \/ /\ pc = "open" /\ pc' = "write"
                 /\ fs' = [fs EXCEPT ![filenames[idx]] = <<>>]
              \/ /\ pc = "write" /\ pc' = "ret"
                 /\ fs' = [fs EXCEPT ![filenames[idx]] = Flatten(new_lines)]
       /\ (pc = "loop" /\ pc' # "loop" /\ ~changed) => (pc' = "ret" /\ ~ret')
      ]_vars

\* The file is open for writing, truncated, its new lines complete in memory.
C10_Witness ==
    /\ pc = "write"
    /\ snap # <<>>
    /\ fs[filename] = <<>>
    /\ Len(new_lines) = Len(lines)
    /\ changed
====
